---- MODULE Spec2Model ----
(***************************************************************************)
(* Actuator driver API of include/zephyr/drivers/actuator.h: the           *)
(* capability table (struct actuator_driver_api), the fourteen dispatch    *)
(* functions z_impl_actuator_*, and the actuator_value representation.     *)
(* The concrete driver behind the table is not part of the header; it is   *)
(* modelled by a reference driver (the stub_* operators).                  *)
(***************************************************************************)
EXTENDS Integers, Sequences, FiniteSets, TLC

VARIABLES
    api,      \* dev->api of each device: slot name -> callback or NULL
    impl,     \* driver-owned state of each device
    out,      \* the caller's struct actuator_value output destination
    call,     \* the facade call made last: operation, handle and arguments
    ret,      \* the int that call returned
    trace,    \* the driver callbacks invoked during that call, in order
    th,       \* each concurrent caller: its position in a facade function and its locals
    fx        \* an actuator_value conversion: the input, the value, the value read back

vars == <<api, impl, out, call, ret, trace, th, fx>>

(***************************************************************************)
(* Program constants                                                       *)
(***************************************************************************)
ENOSYS == 88
EINVAL == 22

ACTUATOR_SETTING_TORQUE_KP == 0
ACTUATOR_SETTING_TORQUE_KI == 1
ACTUATOR_SETTING_MOTOR_POLES == 15
ACTUATOR_SETTING_COMMON_COUNT == 16
ACTUATOR_SETTING_PRIV_START == ACTUATOR_SETTING_COMMON_COUNT
ACTUATOR_SETTING_MAX == 32767

ACTUATOR_TORQUE_CONTROL == 0
ACTUATOR_VELOCITY_CONTROL == 1
ACTUATOR_POSITION_CONTROL == 2

MICRO == 1000000

NULL == "NULL"

\* struct actuator_value
actuator_value(i, f) == [integer_value |-> i, factional_value |-> f]

\* The members of struct actuator_driver_api, in declaration order.
Slots == <<"control_mode_set", "enable", "disable", "setting_set", "setting_get",
           "torque_target_set", "torque_target_get",
           "velocity_target_set", "velocity_target_get",
           "position_target_set", "position_target_get",
           "torque_actual_get", "velocity_actual_get", "position_actual_get">>

SlotNames == {Slots[i] : i \in 1..Len(Slots)}

\* A capability table that supplies exactly the slots in `present`.
actuator_driver_api(present) ==
    [s \in SlotNames |-> IF s \in present THEN s ELSE NULL]


(***************************************************************************)
(* Reference driver behind the table.  It keeps the state the interface    *)
(* leaves to the implementation: enabled flag, control mode, settings,     *)
(* targets and measured values.                                            *)
(***************************************************************************)
Devices == {"dev0", "dev1"}

Quantities == {"torque", "velocity", "position"}

Modes == {ACTUATOR_TORQUE_CONTROL, ACTUATOR_VELOCITY_CONTROL, ACTUATOR_POSITION_CONTROL}

CommonSettings == 0 .. (ACTUATOR_SETTING_COMMON_COUNT - 1)

Zero == actuator_value(0, 0)

\* val1 and val2 agree in sign and val2 is below one unit.
WellFormed(v) ==
    /\ v.factional_value > -MICRO /\ v.factional_value < MICRO
    /\ \/ (v.integer_value >= 0 /\ v.factional_value >= 0)
       \/ (v.integer_value <= 0 /\ v.factional_value <= 0)

DriverInit ==
    [enabled |-> FALSE,
     mode    |-> ACTUATOR_TORQUE_CONTROL,
     setting |-> [s \in CommonSettings |-> Zero],
     target  |-> [q \in Quantities |-> Zero],
     actual  |-> [q \in Quantities |->
                     CASE q = "torque"   -> actuator_value(0, 500000)
                       [] q = "velocity" -> actuator_value(-1, -500000)
                       [] q = "position" -> actuator_value(1, 250000)]]

\* What a callback hands back: its return value, the driver state it leaves,
\* and what it stored through the destination pointer (<<>>: nothing).
Outcome(r, st, w) == [ret |-> r, st |-> st, wrote |-> w]

stub_control_mode_set(st, mode) ==
    IF mode \in Modes
    THEN Outcome(0, [st EXCEPT !.mode = mode], <<>>)
    ELSE Outcome(-EINVAL, st, <<>>)

stub_enable(st) == Outcome(0, [st EXCEPT !.enabled = TRUE], <<>>)

stub_disable(st) == Outcome(0, [st EXCEPT !.enabled = FALSE], <<>>)

stub_setting_set(st, sett, val) ==
    IF sett \in CommonSettings /\ WellFormed(val)
    THEN Outcome(0, [st EXCEPT !.setting[sett] = val], <<>>)
    ELSE Outcome(-EINVAL, st, <<>>)

stub_setting_get(st, sett) ==
    IF sett \in CommonSettings
    THEN Outcome(0, st, <<st.setting[sett]>>)
    ELSE Outcome(-EINVAL, st, <<>>)

stub_target_set(st, q, val) ==
    IF WellFormed(val)
    THEN Outcome(0, [st EXCEPT !.target[q] = val], <<>>)
    ELSE Outcome(-EINVAL, st, <<>>)

stub_target_get(st, q) == Outcome(0, st, <<st.target[q]>>)

stub_actual_get(st, q) == Outcome(0, st, <<st.actual[q]>>)

\* The function a non-NULL table entry points to, applied to the arguments
\* the facade passes: the handle selects the driver state it works on.
Invoke(cb, dev, a, I) ==
    LET st == I[dev] IN
    CASE cb = "control_mode_set"    -> stub_control_mode_set(st, a.mode)
      [] cb = "enable"              -> stub_enable(st)
      [] cb = "disable"             -> stub_disable(st)
      [] cb = "setting_set"         -> stub_setting_set(st, a.sett, a.val)
      [] cb = "setting_get"         -> stub_setting_get(st, a.sett)
      [] cb = "torque_target_set"   -> stub_target_set(st, "torque", a.val)
      [] cb = "torque_target_get"   -> stub_target_get(st, "torque")
      [] cb = "velocity_target_set" -> stub_target_set(st, "velocity", a.val)
      [] cb = "velocity_target_get" -> stub_target_get(st, "velocity")
      [] cb = "position_target_set" -> stub_target_set(st, "position", a.val)
      [] cb = "position_target_get" -> stub_target_get(st, "position")
      [] cb = "torque_actual_get"   -> stub_actual_get(st, "torque")
      [] cb = "velocity_actual_get" -> stub_actual_get(st, "velocity")
      [] cb = "position_actual_get" -> stub_actual_get(st, "position")

(***************************************************************************)
(* The dispatch functions.  A request records what the caller passed; a    *)
(* trace entry records what a callback received and what it returned.      *)
(***************************************************************************)
NoArgs == [mode |-> 0, sett |-> 0, val |-> Zero, dst |-> FALSE]

ModeArgs(mode)      == [NoArgs EXCEPT !.mode = mode]
SettingArgs(sett, val) == [NoArgs EXCEPT !.sett = sett, !.val = val]
SettingDst(sett)    == [NoArgs EXCEPT !.sett = sett, !.dst = TRUE]
ValueArgs(val)      == [NoArgs EXCEPT !.val = val]
DstArgs             == [NoArgs EXCEPT !.dst = TRUE]

Request(op, dev, a) == [op |-> op, dev |-> dev, args |-> a]

Received(cb, dev, a, r) == [cb |-> cb, dev |-> dev, args |-> a, ret |-> r]

\* `return -ENOSYS;`
NotSupported(op, dev, a) ==
    /\ call' = Request(op, dev, a)
    /\ ret' = -ENOSYS
    /\ trace' = <<>>
    /\ UNCHANGED <<api, impl, out, th, fx>>

\* `return cb(dev, ...);` with the arguments `a`
Forward(cb, op, dev, a) ==
    LET r == Invoke(cb, dev, a, impl) IN
    /\ call' = Request(op, dev, a)
    /\ ret' = r.ret
    /\ trace' = <<Received(cb, dev, a, r.ret)>>
    /\ impl' = [impl EXCEPT ![dev] = r.st]
    /\ out' = IF r.wrote = <<>> THEN out ELSE r.wrote[1]
    /\ UNCHANGED <<api, th, fx>>

(***************************************************************************)
(* Faulty variants of dispatch functions: each theorem below is refuted by *)
(* one of them.                                                            *)
(***************************************************************************)
\* enable tests and calls the disable slot (copied from the neighbour).
Mut_enable_uses_disable_slot(dev) ==
    IF api[dev].disable = NULL
    THEN NotSupported("enable", dev, NoArgs)
    ELSE Forward(api[dev].disable, "enable", dev, NoArgs)

\* disable tests and calls the enable slot.
Mut_disable_uses_enable_slot(dev) ==
    IF api[dev].enable = NULL
    THEN NotSupported("disable", dev, NoArgs)
    ELSE Forward(api[dev].enable, "disable", dev, NoArgs)

\* setting_set drops the callback's result and reports success.
Mut_setting_set_returns_zero(dev, sett, val) ==
    IF api[dev].setting_set = NULL
    THEN NotSupported("setting_set", dev, SettingArgs(sett, val))
    ELSE LET a == SettingArgs(sett, val)
             r == Invoke(api[dev].setting_set, dev, a, impl) IN
         /\ call' = Request("setting_set", dev, a)
         /\ ret' = 0
         /\ trace' = <<Received(api[dev].setting_set, dev, a, r.ret)>>
         /\ impl' = [impl EXCEPT ![dev] = r.st]
         /\ UNCHANGED <<api, out, th, fx>>

\* torque_target_set also demands the position_target_set slot.
Mut_torque_target_set_needs_position(dev, val) ==
    IF api[dev].torque_target_set = NULL \/ api[dev].position_target_set = NULL
    THEN NotSupported("torque_target_set", dev, ValueArgs(val))
    ELSE Forward(api[dev].torque_target_set, "torque_target_set", dev, ValueArgs(val))

\* control_mode_set calls the driver a second time when the first call fails.
Mut_control_mode_set_retries(dev, mode) ==
    IF api[dev].control_mode_set = NULL
    THEN NotSupported("control_mode_set", dev, ModeArgs(mode))
    ELSE LET a  == ModeArgs(mode)
             cb == api[dev].control_mode_set
             r1 == Invoke(cb, dev, a, impl)
             I1 == [impl EXCEPT ![dev] = r1.st]
             r2 == Invoke(cb, dev, a, I1) IN
         IF r1.ret = 0
         THEN Forward(cb, "control_mode_set", dev, a)
         ELSE /\ call' = Request("control_mode_set", dev, a)
              /\ ret' = r2.ret
              /\ trace' = <<Received(cb, dev, a, r1.ret), Received(cb, dev, a, r2.ret)>>
              /\ impl' = [I1 EXCEPT ![dev] = r2.st]
              /\ UNCHANGED <<api, out, th, fx>>

\* torque_actual_get clears the destination before it reports a missing slot.
Mut_torque_actual_get_clears(dev) ==
    IF api[dev].torque_actual_get = NULL
    THEN /\ call' = Request("torque_actual_get", dev, DstArgs)
         /\ ret' = -ENOSYS
         /\ trace' = <<>>
         /\ out' = Zero
         /\ UNCHANGED <<api, impl, th, fx>>
    ELSE Forward(api[dev].torque_actual_get, "torque_actual_get", dev, DstArgs)

\* setting_get tests and calls the setting_set slot, handing it the
\* destination as the value to store.
Mut_setting_get_calls_setting_set(dev, sett) ==
    IF api[dev].setting_set = NULL
    THEN NotSupported("setting_get", dev, SettingDst(sett))
    ELSE LET a == SettingArgs(sett, out)
             r == Invoke(api[dev].setting_set, dev, a, impl) IN
         /\ call' = Request("setting_get", dev, SettingDst(sett))
         /\ ret' = r.ret
         /\ trace' = <<Received(api[dev].setting_set, dev, a, r.ret)>>
         /\ impl' = [impl EXCEPT ![dev] = r.st]
         /\ UNCHANGED <<api, out, th, fx>>

z_impl_actuator_control_mode_set(dev, mode) ==
    IF api[dev].control_mode_set = NULL
    THEN NotSupported("control_mode_set", dev, ModeArgs(mode))
    ELSE Forward(api[dev].control_mode_set, "control_mode_set", dev, ModeArgs(mode))

z_impl_actuator_enable(dev) ==
    IF api[dev].enable = NULL
    THEN NotSupported("enable", dev, NoArgs)
    ELSE Forward(api[dev].enable, "enable", dev, NoArgs)

z_impl_actuator_disable(dev) ==
    IF api[dev].disable = NULL
    THEN NotSupported("disable", dev, NoArgs)
    ELSE Forward(api[dev].disable, "disable", dev, NoArgs)

z_impl_actuator_setting_set(dev, sett, val) ==
    IF api[dev].setting_set = NULL
    THEN NotSupported("setting_set", dev, SettingArgs(sett, val))
    ELSE Forward(api[dev].setting_set, "setting_set", dev, SettingArgs(sett, val))

z_impl_actuator_setting_get(dev, sett) ==
    IF api[dev].setting_get = NULL
    THEN NotSupported("setting_get", dev, SettingDst(sett))
    ELSE Forward(api[dev].setting_get, "setting_get", dev, SettingDst(sett))

z_impl_actuator_torque_target_set(dev, val) ==
    IF api[dev].torque_target_set = NULL
    THEN NotSupported("torque_target_set", dev, ValueArgs(val))
    ELSE Forward(api[dev].torque_target_set, "torque_target_set", dev, ValueArgs(val))

z_impl_actuator_torque_target_get(dev) ==
    IF api[dev].torque_target_get = NULL
    THEN NotSupported("torque_target_get", dev, DstArgs)
    ELSE Forward(api[dev].torque_target_get, "torque_target_get", dev, DstArgs)

z_impl_actuator_velocity_target_set(dev, val) ==
    IF api[dev].velocity_target_set = NULL
    THEN NotSupported("velocity_target_set", dev, ValueArgs(val))
    ELSE Forward(api[dev].velocity_target_set, "velocity_target_set", dev, ValueArgs(val))

z_impl_actuator_velocity_target_get(dev) ==
    IF api[dev].velocity_target_get = NULL
    THEN NotSupported("velocity_target_get", dev, DstArgs)
    ELSE Forward(api[dev].velocity_target_get, "velocity_target_get", dev, DstArgs)

z_impl_actuator_position_target_set(dev, val) ==
    IF api[dev].position_target_set = NULL
    THEN NotSupported("position_target_set", dev, ValueArgs(val))
    ELSE Forward(api[dev].position_target_set, "position_target_set", dev, ValueArgs(val))

z_impl_actuator_position_target_get(dev) ==
    IF api[dev].position_target_get = NULL
    THEN NotSupported("position_target_get", dev, DstArgs)
    ELSE Forward(api[dev].position_target_get, "position_target_get", dev, DstArgs)

z_impl_actuator_torque_actual_get(dev) ==
    IF api[dev].torque_actual_get = NULL
    THEN NotSupported("torque_actual_get", dev, DstArgs)
    ELSE Forward(api[dev].torque_actual_get, "torque_actual_get", dev, DstArgs)

z_impl_actuator_velocity_actual_get(dev) ==
    IF api[dev].velocity_actual_get = NULL
    THEN NotSupported("velocity_actual_get", dev, DstArgs)
    ELSE Forward(api[dev].velocity_actual_get, "velocity_actual_get", dev, DstArgs)

z_impl_actuator_position_actual_get(dev) ==
    IF api[dev].position_actual_get = NULL
    THEN NotSupported("position_actual_get", dev, DstArgs)
    ELSE Forward(api[dev].position_actual_get, "position_actual_get", dev, DstArgs)

(***************************************************************************)
(* Callers.  One caller at a time works on two devices.  The second device *)
(* supplies no slot at all.  The tables under test for the first are the   *)
(* full one, the position-only one, every table with a single slot, and    *)
(* the full table less one group of slots.                                 *)
(***************************************************************************)
PositionOnly == {"position_target_set", "position_target_get", "position_actual_get"}

SlotGroups ==
    {{"control_mode_set", "enable", "disable"},
     {"setting_set", "setting_get"},
     {"torque_target_set", "torque_target_get", "torque_actual_get"},
     {"velocity_target_set", "velocity_target_get", "velocity_actual_get"},
     PositionOnly}

TablesUnderTest ==
    {SlotNames, PositionOnly}
        \cup {{s} : s \in SlotNames}
        \cup {SlotNames \ g : g \in SlotGroups}

\* The three control modes and the first value past the enumeration.
ModeInputs == Modes \cup {ACTUATOR_POSITION_CONTROL + 1}

\* A common setting and a value past the maximum.
SettingInputs == {ACTUATOR_SETTING_TORQUE_KP, ACTUATOR_SETTING_MAX + 1}

\* 2.5, and -2 / +500000 (signs disagree).
ValueInputs == {actuator_value(2, 500000), actuator_value(-2, 500000)}

\* Content of the caller's destination before any call (-1.0).
OutInit == actuator_value(-1, 0)

NoCall == Request("none", "dev0", NoArgs)

Threads == {1, 2}

ThreadIdle ==
    [pc |-> "idle", req |-> NoCall, api |-> NULL, ret |-> 0,
     out |-> OutInit, pre |-> DriverInit]

FxIdle == [pc |-> "idle"]

Init ==
    /\ \E present \in TablesUnderTest :
           api = [d \in Devices |->
                     IF d = "dev0"
                     THEN actuator_driver_api(present)
                     ELSE actuator_driver_api({})]
    /\ impl = [d \in Devices |-> DriverInit]
    /\ out = OutInit
    /\ call = NoCall
    /\ ret = 0
    /\ trace = <<>>
    /\ th = [t \in Threads |-> ThreadIdle]
    /\ fx = FxIdle

ControlModeSet == \E d \in Devices, m \in ModeInputs : z_impl_actuator_control_mode_set(d, m)
Enable == \E d \in Devices : z_impl_actuator_enable(d)
Disable == \E d \in Devices : z_impl_actuator_disable(d)
SettingSet ==
    \E d \in Devices, s \in SettingInputs, v \in ValueInputs :
        z_impl_actuator_setting_set(d, s, v)
SettingGet == \E d \in Devices, s \in SettingInputs : z_impl_actuator_setting_get(d, s)
TorqueTargetSet == \E d \in Devices, v \in ValueInputs : z_impl_actuator_torque_target_set(d, v)
TorqueTargetGet == \E d \in Devices : z_impl_actuator_torque_target_get(d)
VelocityTargetSet == \E d \in Devices, v \in ValueInputs : z_impl_actuator_velocity_target_set(d, v)
VelocityTargetGet == \E d \in Devices : z_impl_actuator_velocity_target_get(d)
PositionTargetSet == \E d \in Devices, v \in ValueInputs : z_impl_actuator_position_target_set(d, v)
PositionTargetGet == \E d \in Devices : z_impl_actuator_position_target_get(d)
TorqueActualGet == \E d \in Devices : z_impl_actuator_torque_actual_get(d)
VelocityActualGet == \E d \in Devices : z_impl_actuator_velocity_actual_get(d)
PositionActualGet == \E d \in Devices : z_impl_actuator_position_actual_get(d)

Next ==
    \/ ControlModeSet
    \/ Enable
    \/ Disable
    \/ SettingSet
    \/ SettingGet
    \/ TorqueTargetSet
    \/ TorqueTargetGet
    \/ VelocityTargetSet
    \/ VelocityTargetGet
    \/ PositionTargetSet
    \/ PositionTargetGet
    \/ TorqueActualGet
    \/ VelocityActualGet
    \/ PositionActualGet

Spec == Init /\ [][Next]_vars

(***************************************************************************)
(* Every capability table.  The first device supplies any subset of the    *)
(* fourteen slots, the second device the remaining ones; a caller makes    *)
(* one call on a freshly constructed pair.                                 *)
(***************************************************************************)
InitSlots ==
    /\ \E present \in SUBSET SlotNames :
           api = [d \in Devices |->
                     IF d = "dev0"
                     THEN actuator_driver_api(present)
                     ELSE actuator_driver_api(SlotNames \ present)]
    /\ impl = [d \in Devices |-> DriverInit]
    /\ out = OutInit
    /\ call = NoCall
    /\ ret = 0
    /\ trace = <<>>
    /\ th = [t \in Threads |-> ThreadIdle]
    /\ fx = FxIdle

FirstCall == call = NoCall /\ Next

SpecSlots == InitSlots /\ [][FirstCall]_vars

(***************************************************************************)
(* Callers that work on the settings only, with more identifiers and       *)
(* values; both devices supply setting slots.                              *)
(***************************************************************************)
SettingsOnly == {"setting_set", "setting_get"}

SettingTables == {SlotNames, SettingsOnly, {"setting_set"}, {"setting_get"}}

\* Two common settings, the first private one, and a value past the maximum.
AllSettingInputs ==
    {ACTUATOR_SETTING_TORQUE_KP, ACTUATOR_SETTING_TORQUE_KI,
     ACTUATOR_SETTING_PRIV_START, ACTUATOR_SETTING_MAX + 1}

\* 2.5, -1.5, and -2 / +500000 (signs disagree).
AllValueInputs ==
    {actuator_value(2, 500000), actuator_value(-1, -500000), actuator_value(-2, 500000)}

InitSettings ==
    /\ \E present \in SettingTables :
           api = [d \in Devices |->
                     IF d = "dev0"
                     THEN actuator_driver_api(present)
                     ELSE actuator_driver_api(SettingsOnly)]
    /\ impl = [d \in Devices |-> DriverInit]
    /\ out = OutInit
    /\ call = NoCall
    /\ ret = 0
    /\ trace = <<>>
    /\ th = [t \in Threads |-> ThreadIdle]
    /\ fx = FxIdle

AnySettingSet ==
    \E d \in Devices, s \in AllSettingInputs, v \in AllValueInputs :
        z_impl_actuator_setting_set(d, s, v)

AnySettingGet ==
    \E d \in Devices, s \in AllSettingInputs : z_impl_actuator_setting_get(d, s)

NextSettings == AnySettingSet \/ AnySettingGet

SpecSettings == InitSettings /\ [][NextSettings]_vars

(***************************************************************************)
(* Two concurrent callers, each on its own device, executing a dispatch    *)
(* function statement by statement:                                        *)
(*     api = dev->api;                                                     *)
(*     if (api->slot == NULL) return -ENOSYS;                              *)
(*     return api->slot(dev, ...);                                         *)
(* Everything the function works on is a parameter or a local.             *)
(***************************************************************************)
DevOf(t) == IF t = 1 THEN "dev0" ELSE "dev1"

VelocityOnly == {"velocity_target_set", "velocity_target_get", "velocity_actual_get"}

\* Requests the concurrent callers choose from.
ConcRequests(d) ==
    {Request("enable", d, NoArgs), Request("velocity_target_get", d, DstArgs)}
        \cup {Request("velocity_target_set", d, ValueArgs(v)) : v \in ValueInputs}

InitConc ==
    /\ \E p0 \in {SlotNames, {"velocity_target_set"}},
          p1 \in {SlotNames, SlotNames \ VelocityOnly} :
           api = [d \in Devices |->
                     IF d = "dev0" THEN actuator_driver_api(p0) ELSE actuator_driver_api(p1)]
    /\ impl = [d \in Devices |-> DriverInit]
    /\ out = OutInit
    /\ call = NoCall
    /\ ret = 0
    /\ trace = <<>>
    /\ th = [t \in Threads |-> ThreadIdle]
    /\ fx = FxIdle

\* The caller enters the function; `pre` keeps what its device and its
\* destination held at that moment.
T_Enter(t) ==
    /\ th[t].pc = "idle"
    /\ \E r \in ConcRequests(DevOf(t)) :
           th' = [th EXCEPT ![t].pc = "load", ![t].req = r,
                            ![t].pre = [st |-> impl[DevOf(t)], out |-> th[t].out]]
    /\ UNCHANGED <<api, impl, out, call, ret, trace, fx>>

\* const struct actuator_driver_api *api = dev->api;
T_LoadApi(t) ==
    /\ th[t].pc = "load"
    /\ th' = [th EXCEPT ![t].pc = "test", ![t].api = api[th[t].req.dev]]
    /\ UNCHANGED <<api, impl, out, call, ret, trace, fx>>

\* if (api->slot == NULL) { return -ENOSYS; }
T_Test(t) ==
    /\ th[t].pc = "test"
    /\ IF th[t].api[th[t].req.op] = NULL
       THEN th' = [th EXCEPT ![t].pc = "done", ![t].ret = -ENOSYS]
       ELSE th' = [th EXCEPT ![t].pc = "invoke"]
    /\ UNCHANGED <<api, impl, out, call, ret, trace, fx>>

\* A shared `static int ret` takes the callback's result.
Mut_T_Invoke_static_ret(t) ==
    /\ th[t].pc = "invoke"
    /\ LET q == th[t].req
           r == Invoke(th[t].api[q.op], q.dev, q.args, impl) IN
       /\ impl' = [impl EXCEPT ![q.dev] = r.st]
       /\ th' = [u \in Threads |->
                    IF u = t
                    THEN [th[u] EXCEPT !.pc = "done", !.ret = r.ret,
                              !.out = IF r.wrote = <<>> THEN th[t].out ELSE r.wrote[1]]
                    ELSE [th[u] EXCEPT !.ret = r.ret]]
    /\ UNCHANGED <<api, out, call, ret, trace, fx>>

\* return api->slot(dev, ...);
T_Invoke(t) ==
    /\ th[t].pc = "invoke"
    /\ LET q == th[t].req
           r == Invoke(th[t].api[q.op], q.dev, q.args, impl) IN
       /\ impl' = [impl EXCEPT ![q.dev] = r.st]
       /\ th' = [th EXCEPT ![t].pc = "done", ![t].ret = r.ret,
                        ![t].out = IF r.wrote = <<>> THEN th[t].out ELSE r.wrote[1]]
    /\ UNCHANGED <<api, out, call, ret, trace, fx>>

\* The caller has the result and is free to call again.
T_Return(t) ==
    /\ th[t].pc = "done"
    /\ th' = [th EXCEPT ![t].pc = "idle"]
    /\ UNCHANGED <<api, impl, out, call, ret, trace, fx>>

Enter == \E t \in Threads : T_Enter(t)
LoadApi == \E t \in Threads : T_LoadApi(t)
Test == \E t \in Threads : T_Test(t)
InvokeSlot == \E t \in Threads : T_Invoke(t)
Return == \E t \in Threads : T_Return(t)

NextConc == Enter \/ LoadApi \/ Test \/ InvokeSlot \/ Return

SpecConc == InitConc /\ [][NextConc]_vars

(***************************************************************************)
(* The actuator_value representation.  A real number is written as a sign, *)
(* a whole part and a part in units of 10^-9, so that inputs finer than    *)
(* one millionth exist and no intermediate exceeds 32 bits; the read-back  *)
(* val1 + val2 * 10^-6 is kept as units and units of 10^-9.                *)
(***************************************************************************)
INT32_MAX == 2147483647

SubMicro == 1000

MaxWhole == 1
MaxSub == 1

Real(neg, whole, nano) == [neg |-> neg, whole |-> whole, nano |-> nano]

\* val1 and val2 of the examples given with struct actuator_value.
DocExamples ==
    {<<Real(FALSE, 0, 500000000), actuator_value(0, 500000)>>,
     <<Real(TRUE, 0, 500000000), actuator_value(0, -500000)>>,
     <<Real(TRUE, 1, 0), actuator_value(-1, 0)>>,
     <<Real(TRUE, 1, 500000000), actuator_value(-1, -500000)>>}

\* The value with integer part floor(v) and a non-negative fraction.
Mut_from_real_floor(v) ==
    IF v.neg /\ v.nano > 0
    THEN actuator_value(-v.whole - 1, (SubMicro * MICRO - v.nano) \div SubMicro)
    ELSE actuator_value((IF v.neg THEN -1 ELSE 1) * v.whole, v.nano \div SubMicro)

\* The value for the real v, |v| < 2^31: both parts truncated toward zero.
actuator_value_from_real(v) ==
    LET sg == IF v.neg THEN -1 ELSE 1 IN
    actuator_value(sg * v.whole, sg * (v.nano \div SubMicro))

\* val1 + |val2| * 10^-6
Mut_to_real_abs_fraction(val) ==
    [units |-> val.integer_value,
     nanos |-> (IF val.factional_value < 0 THEN -val.factional_value
                ELSE val.factional_value) * SubMicro]

\* val1 + val2 * 10^-6
actuator_value_to_real(val) ==
    [units |-> val.integer_value, nanos |-> val.factional_value * SubMicro]

FxWholes == (0 .. MaxWhole) \cup {INT32_MAX - k : k \in 0 .. MaxWhole}

FxNanos ==
    UNION {{k, SubMicro * k, 500000000 + k, 999999999 - k, 999999000 - SubMicro * k}
              : k \in 0 .. MaxSub}

FxInputs == {Real(n, w, f) : n \in BOOLEAN, w \in FxWholes, f \in FxNanos}

InitFix ==
    /\ api = [d \in Devices |-> actuator_driver_api({})]
    /\ impl = [d \in Devices |-> DriverInit]
    /\ out = OutInit
    /\ call = NoCall
    /\ ret = 0
    /\ trace = <<>>
    /\ th = [t \in Threads |-> ThreadIdle]
    /\ \E v \in FxInputs : fx = [pc |-> "input", v |-> v]

FromReal ==
    /\ fx.pc = "input"
    /\ fx' = [pc |-> "stored", v |-> fx.v, val |-> actuator_value_from_real(fx.v)]
    /\ UNCHANGED <<api, impl, out, call, ret, trace, th>>

ToReal ==
    /\ fx.pc = "stored"
    /\ fx' = [pc |-> "read", v |-> fx.v, val |-> fx.val,
              back |-> actuator_value_to_real(fx.val)]
    /\ UNCHANGED <<api, impl, out, call, ret, trace, th>>

NextFix == FromReal \/ ToReal

SpecFix == InitFix /\ [][NextFix]_vars

(***************************************************************************)
(* Properties of the dispatch functions                                    *)
(***************************************************************************)
Called == call.op # "none"

\* The table entry the last call asked for.
SlotOf(c) == api[c.dev][c.op]

GetOps ==
    {"setting_get", "torque_target_get", "velocity_target_get", "position_target_get",
     "torque_actual_get", "velocity_actual_get", "position_actual_get"}

\* C1: a facade call whose slot is NULL returns -ENOSYS and no driver
\* callback runs during it.
C1_AbsentNotSupported ==
    (Called /\ SlotOf(call) = NULL) => (ret = -ENOSYS /\ trace = <<>>)

\* position_actual_get is missing from an otherwise working device and is
\* answered with -ENOSYS.
C1_Witness ==
    /\ call.op = "position_actual_get" /\ call.dev = "dev0"
    /\ api["dev0"].position_actual_get = NULL
    /\ api["dev0"].enable # NULL /\ impl["dev0"].enabled
    /\ ret = -ENOSYS

\* C2: a facade call whose slot is present invokes that slot's callback with
\* the caller's handle and arguments, whatever their values, and returns what
\* the callback returned.
C2_PresentForwarded ==
    (Called /\ SlotOf(call) # NULL) =>
        trace = <<Received(SlotOf(call), call.dev, call.args, ret)>>

\* A setting identifier past ACTUATOR_SETTING_MAX reached the driver, whose
\* error code came back.
C2_Witness ==
    /\ call.op = "setting_set" /\ call.args.sett = ACTUATOR_SETTING_MAX + 1
    /\ Len(trace) = 1 /\ trace[1].args.sett = ACTUATOR_SETTING_MAX + 1
    /\ ret = -EINVAL

\* C3: whether a call is forwarded or answered -ENOSYS is decided by its own
\* slot alone, for every one of the 2^14 tables; on the position-only device
\* torque_target_set is not supported while position_target_set and
\* position_target_get are forwarded.
C3_SlotsIndependent ==
    Called =>
        /\ (trace # <<>>) <=> (SlotOf(call) # NULL)
        /\ (ret = -ENOSYS /\ trace = <<>>) <=> (SlotOf(call) = NULL)
        /\ (api[call.dev] = actuator_driver_api(PositionOnly)) =>
               /\ call.op = "torque_target_set" => ret = -ENOSYS
               /\ call.op \in {"position_target_set", "position_target_get"} =>
                      (Len(trace) = 1 /\ trace[1].cb = call.op)

\* The position-only device took 2.5 as its position target.
C3_Witness ==
    /\ api["dev0"] = actuator_driver_api(PositionOnly)
    /\ call.op = "position_target_set" /\ call.dev = "dev0"
    /\ ret = 0 /\ Len(trace) = 1
    /\ impl["dev0"].target["position"] = actuator_value(2, 500000)

\* C4: one facade call invokes at most one callback; with the slot present it
\* is that slot's callback, invoked once, and a failure it reports is what
\* the call returns.
C4_NoRetryNoFallback ==
    Called =>
        /\ Len(trace) <= 1
        /\ SlotOf(call) # NULL =>
               /\ Len(trace) = 1
               /\ trace[1].cb = SlotOf(call)
               /\ trace[1].ret # 0 => ret = trace[1].ret

\* The driver rejected a control mode and the caller got that failure after
\* a single invocation.
C4_Witness ==
    /\ call.op = "control_mode_set" /\ Len(trace) = 1
    /\ trace[1].ret = -EINVAL /\ ret = -EINVAL

\* C10: a "get" call whose slot is NULL returns -ENOSYS and changes neither
\* the caller's destination nor any driver state.
C10_AbsentGetLeavesAll ==
    [][(call'.op \in GetOps /\ api[call'.dev][call'.op] = NULL) =>
          (ret' = -ENOSYS /\ out' = out /\ impl' = impl)]_vars

\* The destination holds 2.5 from an earlier get and the driver is enabled
\* when torque_actual_get finds its slot missing.
C10_Witness ==
    /\ call.op = "torque_actual_get" /\ call.dev = "dev0"
    /\ api["dev0"].torque_actual_get = NULL
    /\ ret = -ENOSYS
    /\ out = actuator_value(2, 500000) /\ impl["dev0"].enabled

\* One step of the enable/mode state machine, seen through the facade.
C8_Step ==
    LET d  == call'.dev
        cb == api[d][call'.op] IN
    /\ (call'.op = "control_mode_set" /\ cb # NULL /\ call'.args.mode \in Modes) =>
           /\ ret' = 0
           /\ impl'[d].mode = call'.args.mode
           /\ impl'[d].enabled = impl[d].enabled
    /\ (call'.op = "enable" /\ cb # NULL) =>
           (ret' = 0 /\ impl'[d].enabled /\ impl'[d].mode = impl[d].mode)
    /\ (call'.op = "disable" /\ cb # NULL) =>
           (ret' = 0 /\ ~impl'[d].enabled /\ impl'[d].mode = impl[d].mode)
    /\ \A dd \in Devices : impl'[dd].mode \in Modes

\* C8: the driver starts Disabled; control_mode_set(m) with one of the three
\* modes succeeds and changes only the recorded mode; enable succeeds from
\* every state and leaves the device Enabled in the recorded mode; disable
\* succeeds and leaves it Disabled; the recorded mode is always one of the
\* three.
C8_StateMachine ==
    /\ \A d \in Devices : ~impl[d].enabled /\ impl[d].mode \in Modes
    /\ [][C8_Step]_vars

\* Velocity mode was recorded and enable then entered Enabled/Velocity.
C8_Witness ==
    /\ call.op = "enable" /\ call.dev = "dev0" /\ ret = 0
    /\ impl["dev0"].enabled
    /\ impl["dev0"].mode = ACTUATOR_VELOCITY_CONTROL

\* One setting_set or setting_get step, seen through the facade.
C9_Step ==
    LET d == call'.dev
        s == call'.args.sett IN
    /\ (call'.op = "setting_set" /\ api[d].setting_set # NULL /\ ret' = 0) =>
           /\ impl'[d].setting[s] = call'.args.val
           /\ \A s2 \in CommonSettings \ {s} : impl'[d].setting[s2] = impl[d].setting[s2]
           /\ \A d2 \in Devices \ {d} : impl'[d2] = impl[d2]
    /\ (call'.op = "setting_get" /\ api[d].setting_get # NULL /\ ret' = 0) =>
           /\ out' = impl[d].setting[s]
           /\ impl' = impl

\* C9: a successful setting_set(s, v) makes v the value of s and leaves every
\* other setting of the device, and every setting of the other device, as it
\* was; a successful setting_get(s) stores the current value of s in the
\* destination and changes no setting.
C9_SettingsIndependent == [][C9_Step]_vars

\* TORQUE_KP reads back 2.5 while TORQUE_KI and the other device's TORQUE_KP
\* hold -1.5.
C9_Witness ==
    /\ call.op = "setting_get" /\ call.dev = "dev0"
    /\ call.args.sett = ACTUATOR_SETTING_TORQUE_KP
    /\ ret = 0 /\ out = actuator_value(2, 500000)
    /\ impl["dev0"].setting[ACTUATOR_SETTING_TORQUE_KI] = actuator_value(-1, -500000)
    /\ impl["dev1"].setting[ACTUATOR_SETTING_TORQUE_KP] = actuator_value(-1, -500000)

\* What the request `q` yields when nothing else runs between its entry and
\* its return, from the driver state and destination in `pre`.
Alone(q, pre) ==
    IF api[q.dev][q.op] = NULL
    THEN [ret |-> -ENOSYS, st |-> pre.st, out |-> pre.out]
    ELSE LET r == Invoke(api[q.dev][q.op], q.dev, q.args,
                         [d \in Devices |-> pre.st]) IN
         [ret |-> r.ret, st |-> r.st,
          out |-> IF r.wrote = <<>> THEN pre.out ELSE r.wrote[1]]

\* C5: under every interleaving of two calls on different devices, a call
\* that has returned has the return value, the destination content and the
\* driver state of its own device that it has when run alone.
C5_NoInterference ==
    \A t \in Threads :
        th[t].pc = "done" =>
            [ret |-> th[t].ret, st |-> impl[DevOf(t)], out |-> th[t].out]
                = Alone(th[t].req, th[t].pre)

\* Caller 1 has stored a velocity target on its device and returned while
\* caller 2 is between its NULL test and its callback, after the driver of
\* its device rejected an earlier request.
C5_Witness ==
    /\ th[1].pc = "done" /\ th[1].req.op = "velocity_target_set" /\ th[1].ret = 0
    /\ impl["dev0"].target["velocity"] = actuator_value(2, 500000)
    /\ th[2].pc = "invoke" /\ th[2].ret = -EINVAL

(***************************************************************************)
(* Properties of the actuator_value representation                         *)
(***************************************************************************)
\* The real v as signed units and signed units of 10^-9.
Signed(v) ==
    LET sg == IF v.neg THEN -1 ELSE 1 IN
    [units |-> sg * v.whole, nanos |-> sg * v.nano]

Abs(x) == IF x < 0 THEN -x ELSE x

\* |a - b| <= 10^-6, for a and b given as units and units of 10^-9 with
\* |nanos| < 2 * 10^9, computed without leaving 32 bits.
WithinMicro(a, b) ==
    LET du == a.units - b.units
        dn == a.nanos - b.nanos
        unit == SubMicro * MICRO IN
    CASE du = 0  -> Abs(dn) <= SubMicro
      [] du = 1  -> dn <= 0 /\ Abs(unit + dn) <= SubMicro
      [] du = -1 -> dn >= 0 /\ Abs(dn - unit) <= SubMicro
      [] du = 2  -> dn <= -unit /\ Abs((unit + dn) + unit) <= SubMicro
      [] du = -2 -> dn >= unit /\ Abs((dn - unit) - unit) <= SubMicro
      [] OTHER   -> FALSE

\* C6: a real v with |v| < 2^31, converted to an actuator_value and read
\* back as val1 + val2 * 10^-6, differs from v by at most 10^-6.
C6_RoundTrip ==
    fx.pc = "read" => WithinMicro(Signed(fx.v), fx.back)

\* -(2^31 - 1) - 0.999999999 was converted and read back, with a loss.
C6_Witness ==
    /\ fx.pc = "read"
    /\ fx.v = Real(TRUE, INT32_MAX, 999999999)
    /\ fx.back # Signed(fx.v)

\* C7: the two parts of a converted value never disagree in sign, and the
\* documented examples are met: -1.5 is (-1, -500000), -0.5 is (0, -500000),
\* -1.0 is (-1, 0), 0.5 is (0, 500000).
C7_SignConsistent ==
    fx.pc \in {"stored", "read"} =>
        /\ \/ (fx.val.integer_value >= 0 /\ fx.val.factional_value >= 0)
           \/ (fx.val.integer_value <= 0 /\ fx.val.factional_value <= 0)
        /\ \A e \in DocExamples : fx.v = e[1] => fx.val = e[2]

\* -1.5 was converted to (-1, -500000).
C7_Witness ==
    /\ fx.pc = "stored"
    /\ fx.v = Real(TRUE, 1, 500000000)
    /\ fx.val = actuator_value(-1, -500000)

====
